---- MODULE Spec2Model ----
(***************************************************************************)
(* A model of two components of the sounddocs front end:                   *)
(*                                                                         *)
(*   StageCanvas      (src/src/components/stage-plot/StageCanvas.tsx)      *)
(*       the stage surface with its pinch-to-zoom view transform;          *)
(*   PatchSheetEditor (src/unnamed/part_000)                               *)
(*       the patch sheet editor: load by id or share code, edit, save.     *)
(*                                                                         *)
(* The two components share no state.  Each has its own initial predicate  *)
(* and next-state relations: SpecCanvas (the zoom) and SpecStage (what is  *)
(* rendered) for the canvas; SpecEditor (the whole editor), SpecLoad and   *)
(* SpecSave for the editor.  The variables of the other component stay at  *)
(* their constructed values.                                               *)
(***************************************************************************)
EXTENDS Integers, Sequences, FiniteSets, TLC

VARIABLES
    \* ---- StageCanvas ----
    cMounted,       \* the mount effects of the canvas have run
    innerWidth,     \* window.innerWidth
    stageSize,      \* the stageSize prop
    scale,          \* useState(1): a JavaScript number (see Number values below)
    startDistance,  \* useState<null | number>(null)
    isMobile,       \* useState(false)
    isViewMode,     \* useState(false)
    attached,       \* the touch listeners are attached to the container
    hScale,         \* the scale the attached listeners closed over
    hStart,         \* the startDistance the attached listeners closed over
    selectedElementId,  \* the selectedElementId prop
    cev,            \* the canvas event that led to this state (history)
    \* ---- PatchSheetEditor ----
    page,           \* where the browser is: the editor, or a place it left for
    id,             \* useParams().id
    shareCode,      \* useParams().shareCode
    session,        \* what supabase.auth.getUser() answers (the session's user or none)
    loading, saving, patchSheet, user, inputs, outputs,
    saveError, saveSuccess, isSharedEdit, shareLink,
    userFetch,      \* a fetchUser() call is awaiting its answer
    fetches,        \* the document fetches awaiting their answer
    inflight,       \* the handleSave calls awaiting their remote operation
    timers,         \* the pending setTimeout callbacks, with the seconds left
    activeTab,      \* useState('info')
    eMounted,       \* the mount effects of the editor have run
    nSaves,         \* how many times handleSave has been triggered (history)
    ops,            \* the remote mutation operations invoked so far (history)
    created,        \* the ids the store assigned to documents this editor created (history)
    loads,          \* where the in-memory document has been loaded from (history)
    linkType,       \* the link_type the share code resolved to (history)
    ev              \* the load or save event that led to this state (history)

canvasVars == <<cMounted, innerWidth, stageSize, scale, startDistance, isMobile, isViewMode,
                attached, hScale, hStart, selectedElementId, cev>>
editorVars == <<page, id, shareCode, session, loading, saving, patchSheet, user, inputs,
                outputs, saveError, saveSuccess, isSharedEdit, shareLink, userFetch,
                fetches, inflight, timers, activeTab, eMounted, nSaves, ops,
                created, loads, linkType, ev>>
vars == <<canvasVars, editorVars>>

(***************************************************************************)
(* Bounds of the model.                                                    *)
(***************************************************************************)
MaxDist == 2      \* finger distances are 0..MaxDist
MaxDen == 10      \* scale values are kept to denominators up to MaxDen
MaxLen == 2       \* channel lists hold up to MaxLen channels
MaxAge == 1       \* timestamps are told apart up to MaxAge seconds back
MaxSaves == 2     \* handleSave is triggered up to MaxSaves times

(***************************************************************************)
(* Number values.  scale is a JavaScript number: a finite value is kept as *)
(* an exact fraction in lowest terms (rounding of the binary fractions is  *)
(* not modelled), and NaN and +Infinity are values of their own, with the  *)
(* arithmetic IEEE 754 gives them.                                         *)
(***************************************************************************)
RECURSIVE Gcd(_, _)
Gcd(a, b) == IF b = 0 THEN a ELSE Gcd(b, a % b)

Fin(n, d) == LET g == Gcd(n, d) IN [kind |-> "fin", num |-> n \div g, den |-> d \div g]
NaN == [kind |-> "nan", num |-> 0, den |-> 1]
Infinity == [kind |-> "inf", num |-> 1, den |-> 1]

\* a <= b on finite values
Leq(a, b) == a.num * b.den <= b.num * a.den

\* distance / startDistance on non-negative numbers: 0/0 is NaN, d/0 is +Infinity
JsDiv(d, b) ==
    IF b = 0 THEN (IF d = 0 THEN NaN ELSE Infinity) ELSE Fin(d, b)

\* a * b, for a >= 0 and b >= 0
JsMul(a, b) ==
    IF a.kind = "nan" \/ b.kind = "nan" THEN NaN
    ELSE IF a.kind = "inf" \/ b.kind = "inf"
         THEN (IF (a.kind = "fin" /\ a.num = 0) \/ (b.kind = "fin" /\ b.num = 0)
               THEN NaN ELSE Infinity)
    ELSE Fin(a.num * b.num, a.den * b.den)

\* a + n/d for a finite fraction n/d (n may be negative)
JsAdd(a, n, d) ==
    IF a.kind = "nan" THEN NaN
    ELSE IF a.kind = "inf" THEN Infinity
    ELSE LET m == a.num * d + n * a.den
             e == a.den * d
             g == Gcd(IF m < 0 THEN -m ELSE m, e)
         IN [kind |-> "fin", num |-> m \div g, den |-> e \div g]

\* Math.max(a, b) and Math.min(a, b) with b finite: NaN if a is NaN
MathMax(a, b) ==
    IF a.kind = "nan" THEN NaN
    ELSE IF a.kind = "inf" THEN Infinity
    ELSE IF Leq(a, b) THEN b ELSE a

MathMin(a, b) ==
    IF a.kind = "nan" THEN NaN
    ELSE IF a.kind = "inf" THEN b
    ELSE IF Leq(a, b) THEN a ELSE b

MinScale == Fin(1, 2)
MaxScale == Fin(2, 1)
One == Fin(1, 1)

\* The model keeps to scale values of a bounded denominator.
Kept(s) == s.kind = "fin" => s.den <= MaxDen

(***************************************************************************)
(* StageCanvas                                                             *)
(***************************************************************************)
Null == -1                          \* startDistance === null
MobileBreakpoint == 768
Widths == {320, 767, 768}
Presets == {"x-small-narrow", "x-small-wide", "small-narrow", "small-wide",
            "medium-narrow", "medium-wide", "large-narrow", "large-wide",
            "x-large-narrow", "x-large-wide"}
StageSizes == Presets \cup {"custom"}
ZoomStageSizes == {"medium-wide", "custom"}   \* the sizes the zoom is explored with
Distances == 0 .. MaxDist
TouchCounts == 1 .. 3
Elements == {"e1", "e2"}            \* the ids of the elements prop
NoSelection == "null"               \* selectedElementId === null
ClickTargets == {"canvas"} \cup Elements

\* getStageDimensions without the case of the last preset
getStageDimensionsShort(size) ==
    CASE size = "x-small-narrow" -> [width |-> 300, height |-> 300]
      [] size = "x-small-wide"   -> [width |-> 500, height |-> 300]
      [] size = "small-narrow"   -> [width |-> 400, height |-> 400]
      [] size = "small-wide"     -> [width |-> 600, height |-> 400]
      [] size = "medium-narrow"  -> [width |-> 500, height |-> 500]
      [] size = "medium-wide"    -> [width |-> 800, height |-> 500]
      [] size = "large-narrow"   -> [width |-> 600, height |-> 600]
      [] size = "large-wide"     -> [width |-> 1000, height |-> 600]
      [] size = "x-large-narrow" -> [width |-> 700, height |-> 700]
      [] OTHER                   -> [width |-> 800, height |-> 500]

getStageDimensions(size) ==
    CASE size = "x-small-narrow" -> [width |-> 300, height |-> 300]
      [] size = "x-small-wide"   -> [width |-> 500, height |-> 300]
      [] size = "small-narrow"   -> [width |-> 400, height |-> 400]
      [] size = "small-wide"     -> [width |-> 600, height |-> 400]
      [] size = "medium-narrow"  -> [width |-> 500, height |-> 500]
      [] size = "medium-wide"    -> [width |-> 800, height |-> 500]
      [] size = "large-narrow"   -> [width |-> 600, height |-> 600]
      [] size = "large-wide"     -> [width |-> 1000, height |-> 600]
      [] size = "x-large-narrow" -> [width |-> 700, height |-> 700]
      [] size = "x-large-wide"   -> [width |-> 1200, height |-> 700]
      [] OTHER                   -> [width |-> 800, height |-> 500]

\* checkMobile with the breakpoint itself counted as narrow
checkMobileInclusive(w) == w <= MobileBreakpoint

\* checkMobile
checkMobile(w) == w < MobileBreakpoint

\* the new scale of handleTouchMove
PinchScale(s, distance, start) ==
    MathMin(MathMax(JsMul(s, JsDiv(distance, start)), MinScale), MaxScale)

\* the '-' and '+' buttons
ZoomOutScale(s) == MathMax(JsAdd(s, -1, 10), MinScale)
ZoomInScale(s) == MathMin(JsAdd(s, 1, 10), MaxScale)

\* ClearsSelection without the isViewMode return
ClearsSelectionInViewMode(viewMode, target) == target = "canvas"

\* handleCanvasClick: whether it calls onSelectElement(null)
ClearsSelection(viewMode, target) == ~viewMode /\ target = "canvas"

\* the props elements.map gives the StageElement of element e
ElementProps(e) == [selected |-> selectedElementId = e, disabled |-> isViewMode]

\* const dimensions = getStageDimensions()
dimensions == getStageDimensions(stageSize)

\* The mount.  The effects run with the state of the first render: checkMobile(),
\* the touch effect (isMobile is still false: it returns before attaching) and
\* the [stageSize] effect's setScale(1).
CanvasMount ==
    /\ ~cMounted
    /\ cMounted' = TRUE
    /\ isMobile' = checkMobile(innerWidth)
    /\ isViewMode' = checkMobile(innerWidth)
    /\ scale' = One
    /\ attached' = FALSE
    /\ hScale' = scale
    /\ hStart' = startDistance
    /\ cev' = [type |-> "mount"]
    /\ UNCHANGED <<innerWidth, stageSize, startDistance, selectedElementId>>
    /\ UNCHANGED editorVars

\* The touch effect runs again after a render in which one of its dependencies
\* [isMobile, scale, startDistance] differs from its last run: the listeners of
\* the last run are removed and, on a narrow viewport, new ones are attached
\* that close over the scale and startDistance of that render.  The effect is
\* a passive one: events may be delivered between the state change and the
\* run of the effect, to the listeners of the last run.
TouchEffect ==
    /\ cMounted
    /\ <<attached, hScale, hStart>> # <<isMobile, scale, startDistance>>
    /\ attached' = isMobile
    /\ hScale' = scale
    /\ hStart' = startDistance
    /\ cev' = [type |-> "effect"]
    /\ UNCHANGED <<cMounted, innerWidth, stageSize, scale, startDistance, isMobile,
                   isViewMode, selectedElementId>>
    /\ UNCHANGED editorVars

\* window 'resize': checkMobile
Resize(w) ==
    /\ cMounted
    /\ w # innerWidth
    /\ innerWidth' = w
    /\ isMobile' = checkMobile(w)
    /\ isViewMode' = checkMobile(w)
    /\ cev' = [type |-> "resize"]
    /\ UNCHANGED <<cMounted, stageSize, scale, startDistance, attached, hScale, hStart,
                   selectedElementId>>
    /\ UNCHANGED editorVars

\* The touch listeners, while attached.
handleTouchStart(n, distance) ==
    /\ cMounted /\ attached
    /\ startDistance' = IF n = 2 THEN distance ELSE startDistance
    /\ cev' = IF n = 2 THEN [type |-> "touchstart", two |-> TRUE, distance |-> distance]
               ELSE [type |-> "touchstart", two |-> FALSE]
    /\ UNCHANGED <<cMounted, innerWidth, stageSize, scale, isMobile, isViewMode,
                   attached, hScale, hStart, selectedElementId>>
    /\ UNCHANGED editorVars

\* scale and startDistance are the ones the listener closed over
handleTouchMove(n, distance) ==
    /\ cMounted /\ attached
    /\ IF n = 2 /\ hStart # Null
       THEN /\ Kept(PinchScale(hScale, distance, hStart))
            /\ scale' = PinchScale(hScale, distance, hStart)
            /\ startDistance' = distance
       ELSE UNCHANGED <<scale, startDistance>>
    /\ cev' = IF n = 2 THEN [type |-> "touchmove", two |-> TRUE, distance |-> distance]
               ELSE [type |-> "touchmove", two |-> FALSE]
    /\ UNCHANGED <<cMounted, innerWidth, stageSize, isMobile, isViewMode,
                   attached, hScale, hStart, selectedElementId>>
    /\ UNCHANGED editorVars

handleTouchEnd ==
    /\ cMounted /\ attached
    /\ startDistance' = Null
    /\ cev' = [type |-> "touchend"]
    /\ UNCHANGED <<cMounted, innerWidth, stageSize, scale, isMobile, isViewMode,
                   attached, hScale, hStart, selectedElementId>>
    /\ UNCHANGED editorVars

\* The zoom buttons are rendered only while isMobile; their onClick closes
\* over the scale of the render that is on screen.
ZoomOut ==
    /\ cMounted /\ isMobile
    /\ Kept(ZoomOutScale(scale))
    /\ scale' = ZoomOutScale(scale)
    /\ cev' = [type |-> "zoom"]
    /\ UNCHANGED <<cMounted, innerWidth, stageSize, startDistance, isMobile, isViewMode,
                   attached, hScale, hStart, selectedElementId>>
    /\ UNCHANGED editorVars

ZoomReset ==
    /\ cMounted /\ isMobile
    /\ scale' = One
    /\ cev' = [type |-> "zoom"]
    /\ UNCHANGED <<cMounted, innerWidth, stageSize, startDistance, isMobile, isViewMode,
                   attached, hScale, hStart, selectedElementId>>
    /\ UNCHANGED editorVars

ZoomIn ==
    /\ cMounted /\ isMobile
    /\ Kept(ZoomInScale(scale))
    /\ scale' = ZoomInScale(scale)
    /\ cev' = [type |-> "zoom"]
    /\ UNCHANGED <<cMounted, innerWidth, stageSize, startDistance, isMobile, isViewMode,
                   attached, hScale, hStart, selectedElementId>>
    /\ UNCHANGED editorVars

\* SetStageSize without the [stageSize] effect
SetStageSizeKeepingZoom(size) ==
    /\ cMounted
    /\ size # stageSize
    /\ stageSize' = size
    /\ cev' = [type |-> "size"]
    /\ UNCHANGED <<cMounted, innerWidth, scale, startDistance, isMobile, isViewMode,
                   attached, hScale, hStart, selectedElementId>>
    /\ UNCHANGED editorVars

\* The owner changes the stageSize prop: the [stageSize] effect resets the zoom.
SetStageSize(size) ==
    /\ cMounted
    /\ size # stageSize
    /\ stageSize' = size
    /\ scale' = One
    /\ cev' = [type |-> "size"]
    /\ UNCHANGED <<cMounted, innerWidth, startDistance, isMobile, isViewMode,
                   attached, hScale, hStart, selectedElementId>>
    /\ UNCHANGED editorVars

\* The owner changes the selectedElementId prop.
SetSelectedElementId(sel) ==
    /\ cMounted
    /\ sel # selectedElementId
    /\ selectedElementId' = sel
    /\ cev' = [type |-> "selected"]
    /\ UNCHANGED <<cMounted, innerWidth, stageSize, scale, startDistance, isMobile,
                   isViewMode, attached, hScale, hStart>>
    /\ UNCHANGED editorVars

\* A click that reaches the canvas div, on the div itself or bubbling from an
\* element; called tells whether the handler called onSelectElement(null).
handleCanvasClick(target) ==
    /\ cMounted
    /\ cev' = [type |-> "click", target |-> target,
               called |-> ClearsSelection(isViewMode, target)]
    /\ UNCHANGED <<cMounted, innerWidth, stageSize, scale, startDistance, isMobile,
                   isViewMode, attached, hScale, hStart, selectedElementId>>
    /\ UNCHANGED editorVars

CanvasInit ==
    /\ cMounted = FALSE
    /\ innerWidth \in Widths
    /\ stageSize \in StageSizes
    /\ scale = One
    /\ startDistance = Null
    /\ isMobile = FALSE
    /\ isViewMode = FALSE
    /\ attached = FALSE
    /\ hScale = One
    /\ hStart = Null
    /\ selectedElementId = NoSelection
    /\ cev = [type |-> "init"]
(***************************************************************************)
(* PatchSheetEditor: the data                                              *)
(***************************************************************************)
NewId == "new"                      \* the id of a patch sheet not yet created
NoParam == "undefined"              \* a route parameter the route does not have
StoreIds == {"d1", "d2"}            \* the ids the store assigns
ShareCodes == {"sc1"}
LinkTypes == {"view", "edit"}
NoUser == "null"                    \* user === null, or no session user
Users == {"u1"}
NoError == "null"                   \* saveError === null
SaveErrorMessage == "Error saving patch sheet. Please try again."
SuccessDismiss == 3                 \* seconds: setTimeout(..., 3000)
ErrorDismiss == 5                   \* seconds: setTimeout(..., 5000)
Tabs == {"info", "inputs", "outputs"}
Names == {"Main Stage"}              \* what the user types as the name
Infos == {[venue |-> ""]}           \* what the info tab supplies
NoSheet == [isNull |-> TRUE]        \* patchSheet === null

\* An optional field is a field the record may lack.  A detail record is
\* kept as the set of its <<key, value>> entries: {} is the empty record.
Has(r, k) == k \in DOMAIN r
WithField(r, k, v) == [f \in DOMAIN r \cup {k} |-> IF f = k THEN v ELSE r[f]]
SeqsUpTo(S, n) == UNION {[1 .. k -> S] : k \in 0 .. n}
RemoveAt(s, i) == SubSeq(s, 1, i - 1) \o SubSeq(s, i + 1, Len(s))

SomeDetails == {<<"snakeType", "A">>}

\* InputChannel values: connection empty or set, connectionDetails absent,
\* the empty record, or filled in
InputChannels ==
    { [id |-> "i1", connection |-> ""],
      [id |-> "i2", connection |-> "xlr"],
      [id |-> "i3", connection |-> "snake", connectionDetails |-> SomeDetails],
      [id |-> "i4", connection |-> "", connectionDetails |-> SomeDetails],
      [id |-> "i5", connection |-> "xlr", connectionDetails |-> {}] }

\* OutputChannel values in memory (destinationGear is a string)
OutputChannels ==
    { [id |-> "o1", sourceType |-> "", destinationGear |-> ""],
      [id |-> "o2", sourceType |-> "aux", destinationGear |-> "amp"],
      [id |-> "o3", sourceType |-> "bus", sourceDetails |-> SomeDetails,
         destinationGear |-> ""],
      [id |-> "o4", sourceType |-> "aux", sourceDetails |-> {},
         destinationGear |-> "amp"] }

\* outputs as the store returns them: older ones lack destinationGear
StoredOutputChannels ==
    { [id |-> "o1", sourceType |-> ""],
      [id |-> "o2", sourceType |-> "aux", destinationGear |-> "amp"],
      [id |-> "o3", sourceType |-> "bus", sourceDetails |-> SomeDetails,
         destinationGear |-> ""],
      [id |-> "o4", sourceType |-> "aux", sourceDetails |-> {}] }

InputLists == SeqsUpTo(InputChannels, MaxLen)
OutputLists == SeqsUpTo(OutputChannels, MaxLen)

\* the inputs / outputs field of a fetched row: absent, not an array, or an array
StoredField(S) ==
    {[kind |-> "absent"], [kind |-> "other"]}
        \cup {[kind |-> "array", items |-> s] : s \in SeqsUpTo(S, MaxLen)}

FetchedDocs ==
    [name : {"Main Stage"}, info : {[venue |-> "Club"]}, last_edited : {MaxAge},
     inputs : StoredField(InputChannels), outputs : StoredField(StoredOutputChannels)]

\* The documents the interleavings of the whole editor are explored with:
\* an older row without channel lists, and a row with both lists.
InputSamples ==
    {<<>>, <<[id |-> "i2", connection |-> "xlr"],
             [id |-> "i3", connection |-> "snake", connectionDetails |-> SomeDetails]>>}
OutputSamples ==
    {<<>>, <<[id |-> "o2", sourceType |-> "aux", destinationGear |-> "amp"],
             [id |-> "o1", sourceType |-> "", destinationGear |-> ""]>>}
FetchedSamples ==
    { [name |-> "Main Stage", info |-> [venue |-> "Club"], last_edited |-> MaxAge,
       inputs |-> [kind |-> "absent"], outputs |-> [kind |-> "absent"]],
      [name |-> "Main Stage", info |-> [venue |-> "Club"], last_edited |-> MaxAge,
       inputs |-> [kind |-> "array",
                   items |-> <<[id |-> "i2", connection |-> "xlr"],
                               [id |-> "i3", connection |-> "snake",
                                connectionDetails |-> SomeDetails]>>],
       outputs |-> [kind |-> "array",
                    items |-> <<[id |-> "o4", sourceType |-> "aux", sourceDetails |-> {}],
                                [id |-> "o2", sourceType |-> "aux",
                                 destinationGear |-> "amp"]>>]] }

\* the default document of fetchPatchSheet for id 'new'
NewPatchSheet == [name |-> "Untitled Patch Sheet", info |-> [venue |-> ""]]

(***************************************************************************)
(* PatchSheetEditor: the pure parts of load and save                       *)
(***************************************************************************)
\* resource.inputs && Array.isArray(resource.inputs) ? resource.inputs : []
LoadedInputs(field) == IF field.kind = "array" THEN field.items ELSE <<>>

\* LoadOutput that resets destinationGear whatever it was
LoadOutputBlank(output) == WithField(output, "destinationGear", "")

\* { ...output, destinationGear: output.destinationGear || '' }
LoadOutput(output) ==
    WithField(output, "destinationGear",
              IF Has(output, "destinationGear") /\ output.destinationGear # ""
              THEN output.destinationGear ELSE "")

LoadedOutputs(field) ==
    IF field.kind = "array" THEN [k \in 1 .. Len(field.items) |-> LoadOutput(field.items[k])] ELSE <<>>

\* setPatchSheet(data): the part of the row the editor reads
SheetOf(doc) == [name |-> doc.name, info |-> doc.info, last_edited |-> doc.last_edited]

\* NormalizeInput that assigns the empty record to every input
NormalizeInputAlways(input) == WithField(input, "connectionDetails", {})

\* if (input.connection && !input.connectionDetails) input.connectionDetails = {}
NormalizeInput(input) ==
    IF input.connection # "" /\ ~Has(input, "connectionDetails")
    THEN WithField(input, "connectionDetails", {})
    ELSE input

\* if (output.sourceType && !output.sourceDetails) output.sourceDetails = {}
NormalizeOutput(output) ==
    IF output.sourceType # "" /\ ~Has(output, "sourceDetails")
    THEN WithField(output, "sourceDetails", {})
    ELSE output

\* inputs.map(...) and outputs.map(...): the copies that are serialized
updatedInputsOf(ins) == [k \in 1 .. Len(ins) |-> NormalizeInput(ins[k])]
updatedOutputsOf(outs) == [k \in 1 .. Len(outs) |-> NormalizeOutput(outs[k])]

\* The map callbacks assign to the channel objects of the state arrays
\* before copying them: what inputs / outputs hold after the two maps.
InputsAfterMap(ins) == [k \in 1 .. Len(ins) |-> NormalizeInput(ins[k])]
OutputsAfterMap(outs) == [k \in 1 .. Len(outs) |-> NormalizeOutput(outs[k])]

\* the branch of handleSave: which remote operation it awaits
SavePath(shared, code, u, docId) ==
    IF shared /\ code # NoParam THEN "shared"
    ELSE IF u # NoUser THEN (IF docId = NewId THEN "create" ELSE "update")
    ELSE "none"

\* an edit or a load while a save is awaiting (history)
MarkDirty(calls) == [i \in 1 .. Len(calls) |-> [calls[i] EXCEPT !.dirty = TRUE]]

Mounted == page = "editor" /\ eMounted
Interactive == Mounted /\ ~loading

(***************************************************************************)
(* PatchSheetEditor: the operations                                        *)
(***************************************************************************)
unchangedCanvas == UNCHANGED canvasVars

\* The mount.  The first effect sets isSharedEdit from the path; the second
\* runs in the same commit, with isSharedEdit still false: fetchUser() and
\* fetchPatchSheet(), which for a route without id 'new' awaits the fetch by
\* id.  On a shared edit route the render that follows has isSharedEdit
\* true, a dependency of the second effect, which runs again: fetchUser()
\* and fetchPatchSheet(), which now awaits getSharedResource(shareCode).
EditorMount ==
    /\ page = "editor" /\ ~eMounted
    /\ eMounted' = TRUE
    /\ isSharedEdit' = (shareCode # NoParam)
    /\ userFetch' = TRUE
    /\ IF id = NewId
       THEN /\ patchSheet' = NewPatchSheet
            /\ inputs' = <<>>
            /\ outputs' = <<>>
            /\ loading' = FALSE
            /\ loads' = loads \cup {"default"}
            /\ fetches' = fetches
       ELSE /\ fetches' = {[kind |-> "owned", key |-> id]}
                \cup (IF shareCode # NoParam
                      THEN {[kind |-> "shared", key |-> shareCode]} ELSE {})
            /\ UNCHANGED <<patchSheet, inputs, outputs, loading, loads>>
    /\ ev' = [type |-> "mount"]
    /\ UNCHANGED <<page, id, shareCode, session, saving, user, saveError, saveSuccess,
                   shareLink, inflight, timers, activeTab, nSaves, ops, created, linkType>>
    /\ unchangedCanvas

\* fetchUser: the answer of supabase.auth.getUser()
fetchUserDone ==
    /\ Mounted /\ userFetch
    /\ userFetch' = FALSE
    /\ user' = IF session # NoUser THEN session ELSE user
    /\ ev' = [type |-> "other"]
    /\ UNCHANGED <<page, id, shareCode, session, loading, saving, patchSheet, inputs, outputs,
                   saveError, saveSuccess, isSharedEdit, shareLink, fetches, inflight, timers,
                   activeTab, eMounted, nSaves, ops, created, loads, linkType>>
    /\ unchangedCanvas

\* The browser leaves the editor: the component is unmounted and its state
\* is gone.  What its pending continuations still do is kept: a fetch that
\* answers later still navigates.  (No insert is awaiting when that
\* happens: a fetch is pending only while loading, or after the insert.)
Leave(to) ==
    /\ page' = to
    /\ loading' = TRUE
    /\ saving' = FALSE
    /\ patchSheet' = NoSheet
    /\ user' = NoUser
    /\ inputs' = <<>>
    /\ outputs' = <<>>
    /\ saveError' = NoError
    /\ saveSuccess' = FALSE
    /\ isSharedEdit' = FALSE
    /\ shareLink' = [isNull |-> TRUE]
    /\ userFetch' = FALSE
    /\ inflight' = <<>>
    /\ timers' = {}
    /\ activeTab' = "info"
    /\ UNCHANGED <<id, shareCode, session, eMounted, nSaves, ops, created, loads>>

\* fetchPatchSheet, the fetch by id answers with a row.  .single() finds a
\* row only for an id of the store.  State updates of an editor that has
\* been left (unmounted) have no effect.
OwnedFetchData(f, data) ==
    /\ f \in fetches /\ f.kind = "owned" /\ f.key \in StoreIds
    /\ page \in {"editor", "dashboard"}
    /\ fetches' = fetches \ {f}
    /\ IF page = "editor"
       THEN /\ patchSheet' = SheetOf(data)
            /\ inputs' = LoadedInputs(data.inputs)
            /\ outputs' = LoadedOutputs(data.outputs)
            /\ loading' = FALSE
            /\ loads' = loads \cup {"owned"}
            /\ inflight' = MarkDirty(inflight)
            /\ ev' = [type |-> "load", from |-> "owned", data |-> data]
       ELSE /\ ev' = [type |-> "other"]
            /\ UNCHANGED <<patchSheet, inputs, outputs, loading, loads, inflight>>
    /\ UNCHANGED <<page, id, shareCode, session, saving, user, saveError, saveSuccess,
                   isSharedEdit, shareLink, userFetch, timers, activeTab, eMounted, nSaves,
                   ops, created, linkType>>
    /\ unchangedCanvas

\* fetchPatchSheet, the fetch by id answers with an error (no row with that
\* id, or the request failed): navigate('/dashboard'), setLoading(false).
\* The dashboard route unmounts the editor.
OwnedFetchError(f) ==
    /\ f \in fetches /\ f.kind = "owned"
    /\ page \in {"editor", "dashboard"}
    /\ fetches' = fetches \ {f}
    /\ Leave("dashboard")
    /\ ev' = [type |-> "loadError", from |-> "owned"]
    /\ UNCHANGED linkType
    /\ unchangedCanvas

\* CanEdit without the test of the link type
CanEditAny(link_type) == TRUE

\* if (shareLink.link_type !== 'edit') redirect, else load
CanEdit(link_type) == link_type = "edit"

\* fetchPatchSheet, getSharedResource answers with a share link and its
\* resource.  A link that is not an edit link: window.location.href = the
\* read-only shared view; the document is unloaded, and with it whatever
\* else was pending.  An edit link: the resource is loaded.
SharedResolve(f, link_type, resource) ==
    /\ f \in fetches /\ f.kind = "shared"
    /\ page \in {"editor", "dashboard"}
    /\ linkType' = link_type
    /\ IF ~CanEdit(link_type)
       THEN /\ fetches' = {}
            /\ Leave("sharedView")
            /\ ev' = [type |-> "redirect", from |-> "shared"]
       ELSE /\ fetches' = fetches \ {f}
            /\ IF page = "editor"
               THEN /\ patchSheet' = SheetOf(resource)
                    /\ shareLink' = [link_type |-> link_type]
                    /\ inputs' = LoadedInputs(resource.inputs)
                    /\ outputs' = LoadedOutputs(resource.outputs)
                    /\ loading' = FALSE
                    /\ loads' = loads \cup {"shared"}
                    /\ inflight' = MarkDirty(inflight)
                    /\ ev' = [type |-> "load", from |-> "shared", data |-> resource]
               ELSE /\ ev' = [type |-> "other"]
                    /\ UNCHANGED <<patchSheet, shareLink, inputs, outputs, loading, loads,
                                   inflight>>
            /\ UNCHANGED <<page, id, shareCode, session, saving, user, saveError,
                           saveSuccess, isSharedEdit, userFetch, timers, activeTab,
                           eMounted, nSaves, ops, created>>
    /\ unchangedCanvas

\* fetchPatchSheet, getSharedResource throws: window.location.href = home
SharedResolveError(f) ==
    /\ f \in fetches /\ f.kind = "shared"
    /\ page \in {"editor", "dashboard"}
    /\ fetches' = {}
    /\ linkType' = "error"
    /\ Leave("home")
    /\ ev' = [type |-> "loadError", from |-> "shared"]
    /\ unchangedCanvas

\* SaveDisabled for a button without the disabled attribute
SaveNeverDisabled == FALSE

\* The Save button is rendered once loading is false, with disabled={saving}.
SaveDisabled == saving

\* the setTimeout of a success and of a failure
SuccessTimer == [kind |-> "success", left |-> SuccessDismiss]
ErrorTimer == [kind |-> "error", left |-> ErrorDismiss]

\* handleSave up to its await.  The three state resets, the two maps (which
\* leave their assignments in the channels of the state arrays), then the
\* branch on the mode.  With no shared edit and no user there is no await:
\* the finally block runs at once.
handleSave ==
    /\ Interactive /\ ~SaveDisabled
    /\ nSaves < MaxSaves
    /\ LET path == SavePath(isSharedEdit, shareCode, user, id)
           call == [path |-> path,
                    key |-> IF path = "shared" THEN shareCode ELSE id,
                    patchSheet |-> patchSheet,
                    updatedInputs |-> updatedInputsOf(inputs),
                    updatedOutputs |-> updatedOutputsOf(outputs),
                    preInputs |-> inputs,
                    preOutputs |-> outputs,
                    dirty |-> FALSE]
       IN /\ inputs' = InputsAfterMap(inputs)
          /\ outputs' = OutputsAfterMap(outputs)
          /\ saveError' = NoError
          /\ saveSuccess' = FALSE
          /\ nSaves' = nSaves + 1
          /\ IF path = "none"
             THEN /\ saving' = FALSE
                  /\ UNCHANGED <<inflight, ops>>
             ELSE /\ saving' = TRUE
                  /\ inflight' = Append(inflight, call)
                  /\ ops' = ops \cup {[op |-> path, key |-> call.key]}
          /\ ev' = [type |-> "handleSave", path |-> path]
    /\ UNCHANGED <<page, id, shareCode, session, loading, patchSheet, user, isSharedEdit,
                   shareLink, userFetch, fetches, timers, activeTab, eMounted, created,
                   loads, linkType>>
    /\ unchangedCanvas

\* WrittenBack without the new last_edited
WrittenBackStale(call) == call.patchSheet

\* the state written back by a successful update: setInputs, setOutputs,
\* setPatchSheet({...patchSheet, inputs, outputs, last_edited: now})
WrittenBack(call) == WithField(call.patchSheet, "last_edited", 0)

\* handleSave after updateSharedResource: true, false, or an exception
SaveSharedDone(i, result) ==
    /\ Mounted
    /\ i \in DOMAIN inflight /\ inflight[i].path = "shared"
    /\ result \in {"true", "false", "throw"}
    /\ LET call == inflight[i]
       IN /\ inflight' = RemoveAt(inflight, i)
          /\ saving' = FALSE
          /\ CASE result = "true" ->
                    /\ inputs' = call.updatedInputs
                    /\ outputs' = call.updatedOutputs
                    /\ patchSheet' = WrittenBack(call)
                    /\ saveSuccess' = TRUE
                    /\ timers' = timers \cup {SuccessTimer}
                    /\ UNCHANGED saveError
               [] result = "false" ->
                    UNCHANGED <<inputs, outputs, patchSheet, saveSuccess, saveError, timers>>
               [] result = "throw" ->
                    /\ saveError' = SaveErrorMessage
                    /\ timers' = timers \cup {ErrorTimer}
                    /\ UNCHANGED <<inputs, outputs, patchSheet, saveSuccess>>
          /\ ev' = [type |-> "saveDone", path |-> "shared", result |-> result]
    /\ UNCHANGED <<page, id, shareCode, session, loading, user, isSharedEdit, shareLink,
                   userFetch, fetches, activeTab, eMounted, nSaves, ops, created, loads,
                   linkType>>
    /\ unchangedCanvas

\* handleSave after insert(...).select() answered with the created row:
\* navigate(`/patch-sheet/${data[0].id}`).  The id and the path are
\* dependencies of the effects, which run again: fetchUser() and
\* fetchPatchSheet(), which awaits the fetch by the new id.
SaveCreateOk(i, newId) ==
    /\ Mounted
    /\ i \in DOMAIN inflight /\ inflight[i].path = "create"
    /\ newId \in StoreIds \ (created \cup {id})
    /\ LET call == inflight[i]
       IN /\ inflight' = RemoveAt(inflight, i)
          /\ ev' = [type |-> "saveDone", path |-> "create", result |-> "ok"]
    /\ saving' = FALSE
    /\ created' = created \cup {newId}
    /\ id' = newId
    /\ userFetch' = TRUE
    /\ fetches' = fetches \cup {[kind |-> "owned", key |-> newId]}
    /\ UNCHANGED <<page, shareCode, session, loading, patchSheet, user, inputs, outputs,
                   saveError, saveSuccess, isSharedEdit, shareLink, timers, activeTab,
                   eMounted, nSaves, ops, loads, linkType>>
    /\ unchangedCanvas

\* handleSave after update(...).eq('id', id) answered without error
SaveUpdateOk(i) ==
    /\ Mounted
    /\ i \in DOMAIN inflight /\ inflight[i].path = "update"
    /\ LET call == inflight[i]
       IN /\ inflight' = RemoveAt(inflight, i)
          /\ inputs' = call.updatedInputs
          /\ outputs' = call.updatedOutputs
          /\ patchSheet' = WrittenBack(call)
          /\ ev' = [type |-> "saveDone", path |-> "update", result |-> "ok"]
    /\ saveSuccess' = TRUE
    /\ timers' = timers \cup {SuccessTimer}
    /\ saving' = FALSE
    /\ UNCHANGED <<page, id, shareCode, session, loading, user, saveError, isSharedEdit,
                   shareLink, userFetch, fetches, activeTab, eMounted, nSaves, ops, created,
                   loads, linkType>>
    /\ unchangedCanvas

\* SaveOwnedError for a handleSave without the finally block
SaveOwnedErrorNoFinally(i) ==
    /\ Mounted
    /\ i \in DOMAIN inflight /\ inflight[i].path \in {"create", "update"}
    /\ LET call == inflight[i]
       IN /\ inflight' = RemoveAt(inflight, i)
          /\ ev' = [type |-> "saveDone", path |-> call.path, result |-> "throw"]
    /\ saveError' = SaveErrorMessage
    /\ timers' = timers \cup {ErrorTimer}
    /\ UNCHANGED <<page, id, shareCode, session, loading, saving, patchSheet, user, inputs,
                   outputs, saveSuccess, isSharedEdit, shareLink, userFetch, fetches,
                   activeTab, eMounted, nSaves, ops, created, loads, linkType>>
    /\ unchangedCanvas

\* handleSave after insert or update answered with an error, or threw: catch
SaveOwnedError(i) ==
    /\ Mounted
    /\ i \in DOMAIN inflight /\ inflight[i].path \in {"create", "update"}
    /\ LET call == inflight[i]
       IN /\ inflight' = RemoveAt(inflight, i)
          /\ ev' = [type |-> "saveDone", path |-> call.path, result |-> "throw"]
    /\ saveError' = SaveErrorMessage
    /\ timers' = timers \cup {ErrorTimer}
    /\ saving' = FALSE
    /\ UNCHANGED <<page, id, shareCode, session, loading, patchSheet, user, inputs, outputs,
                   saveSuccess, isSharedEdit, shareLink, userFetch, fetches, activeTab,
                   eMounted, nSaves, ops, created, loads, linkType>>
    /\ unchangedCanvas

\* a setTimeout callback that is due
TimerFire(t) ==
    /\ Mounted
    /\ t \in timers /\ t.left = 0
    /\ timers' = timers \ {t}
    /\ IF t.kind = "success"
       THEN saveSuccess' = FALSE /\ UNCHANGED saveError
       ELSE saveError' = NoError /\ UNCHANGED saveSuccess
    /\ ev' = [type |-> "other"]
    /\ UNCHANGED <<page, id, shareCode, session, loading, saving, patchSheet, user, inputs,
                   outputs, isSharedEdit, shareLink, userFetch, fetches, inflight,
                   activeTab, eMounted, nSaves, ops, created, loads, linkType>>
    /\ unchangedCanvas

\* A second passes: no callback is due.  The in-memory timestamp is a
\* second older (ages beyond MaxAge are not told apart).
Older(sheet) ==
    IF Has(sheet, "last_edited") /\ sheet.last_edited < MaxAge
    THEN [sheet EXCEPT !.last_edited = @ + 1]
    ELSE sheet

Tick ==
    /\ Mounted
    /\ timers # {}
    /\ \A t \in timers : t.left > 0
    /\ timers' = {[t EXCEPT !.left = @ - 1] : t \in timers}
    /\ patchSheet' = Older(patchSheet)
    /\ ev' = [type |-> "other"]
    /\ UNCHANGED <<page, id, shareCode, session, loading, saving, user, inputs, outputs,
                   saveError, saveSuccess, isSharedEdit, shareLink, userFetch, fetches,
                   inflight, activeTab, eMounted, nSaves, ops, created, loads, linkType>>
    /\ unchangedCanvas

\* the name field: setPatchSheet({...patchSheet, name})
SetName(name) ==
    /\ Interactive
    /\ patchSheet' = WithField(patchSheet, "name", name)
    /\ inflight' = MarkDirty(inflight)
    /\ ev' = [type |-> "other"]
    /\ UNCHANGED <<page, id, shareCode, session, loading, saving, user, inputs, outputs,
                   saveError, saveSuccess, isSharedEdit, shareLink, userFetch, fetches,
                   timers, activeTab, eMounted, nSaves, ops, created, loads, linkType>>
    /\ unchangedCanvas

\* the info tab: setPatchSheet({...patchSheet, info})
updatePatchSheetInfo(info) ==
    /\ Interactive /\ activeTab = "info"
    /\ patchSheet' = WithField(patchSheet, "info", info)
    /\ inflight' = MarkDirty(inflight)
    /\ ev' = [type |-> "other"]
    /\ UNCHANGED <<page, id, shareCode, session, loading, saving, user, inputs, outputs,
                   saveError, saveSuccess, isSharedEdit, shareLink, userFetch, fetches,
                   timers, activeTab, eMounted, nSaves, ops, created, loads, linkType>>
    /\ unchangedCanvas

\* the inputs tab: setInputs(newInputs)
updateInputs(newInputs) ==
    /\ Interactive /\ activeTab = "inputs"
    /\ inputs' = newInputs
    /\ inflight' = MarkDirty(inflight)
    /\ ev' = [type |-> "other"]
    /\ UNCHANGED <<page, id, shareCode, session, loading, saving, patchSheet, user, outputs,
                   saveError, saveSuccess, isSharedEdit, shareLink, userFetch, fetches,
                   timers, activeTab, eMounted, nSaves, ops, created, loads, linkType>>
    /\ unchangedCanvas

\* the outputs tab: setOutputs(newOutputs)
updateOutputs(newOutputs) ==
    /\ Interactive /\ activeTab = "outputs"
    /\ outputs' = newOutputs
    /\ inflight' = MarkDirty(inflight)
    /\ ev' = [type |-> "other"]
    /\ UNCHANGED <<page, id, shareCode, session, loading, saving, patchSheet, user, inputs,
                   saveError, saveSuccess, isSharedEdit, shareLink, userFetch, fetches,
                   timers, activeTab, eMounted, nSaves, ops, created, loads, linkType>>
    /\ unchangedCanvas

\* setActiveTab for tab panels that drop the lists when hidden
setActiveTabDiscarding(tab) ==
    /\ Interactive
    /\ tab # activeTab
    /\ activeTab' = tab
    /\ inputs' = <<>>
    /\ outputs' = <<>>
    /\ ev' = [type |-> "other"]
    /\ UNCHANGED <<page, id, shareCode, session, loading, saving, patchSheet, user,
                   saveError, saveSuccess, isSharedEdit, shareLink, userFetch,
                   fetches, inflight, timers, eMounted, nSaves, ops, created, loads, linkType>>
    /\ unchangedCanvas

\* the tab buttons
setActiveTab(tab) ==
    /\ Interactive
    /\ tab # activeTab
    /\ activeTab' = tab
    /\ ev' = [type |-> "other"]
    /\ UNCHANGED <<page, id, shareCode, session, loading, saving, patchSheet, user, inputs,
                   outputs, saveError, saveSuccess, isSharedEdit, shareLink, userFetch,
                   fetches, inflight, timers, eMounted, nSaves, ops, created, loads, linkType>>
    /\ unchangedCanvas

\* The routes the editor is opened on: a new sheet, an owned sheet, a share code.
Routes ==
    {[id |-> NewId, shareCode |-> NoParam],
     [id |-> "d1", shareCode |-> NoParam],
     [id |-> NoParam, shareCode |-> "sc1"]}

EditorConstructed(route, sess) ==
    /\ page = "editor"
    /\ id = route.id
    /\ shareCode = route.shareCode
    /\ session = sess
    /\ loading = TRUE
    /\ saving = FALSE
    /\ patchSheet = NoSheet
    /\ user = NoUser
    /\ inputs = <<>>
    /\ outputs = <<>>
    /\ saveError = NoError
    /\ saveSuccess = FALSE
    /\ isSharedEdit = FALSE
    /\ shareLink = [isNull |-> TRUE]
    /\ userFetch = FALSE
    /\ fetches = {}
    /\ inflight = <<>>
    /\ timers = {}
    /\ activeTab = "info"
    /\ eMounted = FALSE
    /\ nSaves = 0
    /\ ops = {}
    /\ created = {}
    /\ loads = {}
    /\ linkType = "none"
    /\ ev = [type |-> "init"]

EditorInit == \E route \in Routes, sess \in Users \cup {NoUser} : EditorConstructed(route, sess)

CanvasNext ==
    \/ CanvasMount
    \/ \E w \in Widths : Resize(w)
    \/ TouchEffect
    \/ \E n \in TouchCounts, d \in Distances : handleTouchStart(n, d)
    \/ \E n \in TouchCounts, d \in Distances : handleTouchMove(n, d)
    \/ handleTouchEnd
    \/ ZoomOut
    \/ ZoomReset
    \/ ZoomIn
    \/ \E size \in ZoomStageSizes : SetStageSize(size)

\* what the canvas renders: the stage of every size, the elements, the clicks
StageNext ==
    \/ CanvasMount
    \/ \E w \in Widths : Resize(w)
    \/ \E size \in StageSizes : SetStageSize(size)
    \/ \E sel \in Elements \cup {NoSelection} : SetSelectedElementId(sel)
    \/ \E target \in ClickTargets : handleCanvasClick(target)

EditorNext ==
    \/ EditorMount
    \/ fetchUserDone
    \/ \E f \in fetches, data \in FetchedSamples : OwnedFetchData(f, data)
    \/ \E f \in fetches : OwnedFetchError(f)
    \/ \E f \in fetches, link_type \in LinkTypes, resource \in FetchedSamples :
          SharedResolve(f, link_type, resource)
    \/ \E f \in fetches : SharedResolveError(f)
    \/ handleSave
    \/ \E i \in DOMAIN inflight, result \in {"true", "false", "throw"} : SaveSharedDone(i, result)
    \/ \E i \in DOMAIN inflight, newId \in StoreIds : SaveCreateOk(i, newId)
    \/ \E i \in DOMAIN inflight : SaveUpdateOk(i)
    \/ \E i \in DOMAIN inflight : SaveOwnedError(i)
    \/ \E t \in timers : TimerFire(t)
    \/ Tick
    \/ \E name \in Names : SetName(name)
    \/ \E info \in Infos : updatePatchSheetInfo(info)
    \/ \E newInputs \in InputSamples : updateInputs(newInputs)
    \/ \E newOutputs \in OutputSamples : updateOutputs(newOutputs)
    \/ \E tab \in Tabs : setActiveTab(tab)

\* the canvas alone, beside an editor that is never mounted
InitCanvas ==
    /\ CanvasInit /\ stageSize \in ZoomStageSizes
    /\ EditorConstructed([id |-> NewId, shareCode |-> NoParam], NoUser)

SpecCanvas == InitCanvas /\ [][CanvasNext]_vars

InitStage ==
    /\ CanvasInit
    /\ EditorConstructed([id |-> NewId, shareCode |-> NoParam], NoUser)

SpecStage == InitStage /\ [][StageNext]_vars

\* the editor alone, beside a canvas that is never mounted
InitEditor ==
    /\ EditorInit
    /\ CanvasInit /\ innerWidth = 768 /\ stageSize = "medium-wide"

SpecEditor == InitEditor /\ [][EditorNext]_vars
(***************************************************************************)
(* Loading alone, over every fetched document of the bounds.               *)
(***************************************************************************)
LoadNext ==
    \/ EditorMount
    \/ fetchUserDone
    \/ \E f \in fetches, data \in FetchedDocs : OwnedFetchData(f, data)
    \/ \E f \in fetches : OwnedFetchError(f)
    \/ \E f \in fetches, link_type \in LinkTypes, resource \in FetchedDocs :
          SharedResolve(f, link_type, resource)
    \/ \E f \in fetches : SharedResolveError(f)

SpecLoad == InitEditor /\ [][LoadNext]_vars

(***************************************************************************)
(* Saving alone, from an editor that has loaded and whose lists have been  *)
(* edited to any lists of the bounds: on the route of a new sheet, of an   *)
(* owned sheet, and of a share code with an edit link (where the fetch by  *)
(* id of the first effect run is still awaiting).                          *)
(***************************************************************************)
Loaded(route, ins, outs) ==
    /\ page = "editor"
    /\ id = route.id
    /\ shareCode = route.shareCode
    /\ session = "u1"
    /\ loading = FALSE
    /\ saving = FALSE
    /\ patchSheet = IF route.id = NewId THEN NewPatchSheet
                    ELSE [name |-> "Main Stage", info |-> [venue |-> "Club"],
                          last_edited |-> MaxAge]
    /\ user = "u1"
    /\ inputs = ins
    /\ outputs = outs
    /\ saveError = NoError
    /\ saveSuccess = FALSE
    /\ isSharedEdit = (route.shareCode # NoParam)
    /\ shareLink = IF route.shareCode # NoParam THEN [link_type |-> "edit"]
                   ELSE [isNull |-> TRUE]
    /\ userFetch = FALSE
    /\ fetches = IF route.shareCode # NoParam THEN {[kind |-> "owned", key |-> NoParam]}
                 ELSE {}
    /\ inflight = <<>>
    /\ timers = {}
    /\ activeTab = "info"
    /\ eMounted = TRUE
    /\ nSaves = 0
    /\ ops = {}
    /\ created = {}
    /\ loads = IF route.id = NewId THEN {"default"}
               ELSE IF route.shareCode # NoParam THEN {"shared"} ELSE {"owned"}
    /\ linkType = IF route.shareCode # NoParam THEN "edit" ELSE "none"
    /\ ev = [type |-> "other"]

InitSave ==
    /\ \E route \in Routes, ins \in InputLists, outs \in OutputLists : Loaded(route, ins, outs)
    /\ CanvasInit /\ innerWidth = 768 /\ stageSize = "medium-wide"

SaveNext ==
    \/ handleSave
    \/ \E i \in DOMAIN inflight, result \in {"true", "false", "throw"} : SaveSharedDone(i, result)
    \/ \E i \in DOMAIN inflight, newId \in StoreIds : SaveCreateOk(i, newId)
    \/ \E i \in DOMAIN inflight : SaveUpdateOk(i)
    \/ \E i \in DOMAIN inflight : SaveOwnedError(i)

SpecSave == InitSave /\ [][SaveNext]_vars

(***************************************************************************)
(* The whole editor, where the remote call of a save that awaits           *)
(* eventually answers or throws.                                           *)
(***************************************************************************)
\* the awaited call of handleSave returns or throws
SaveCompletes ==
    \E i \in DOMAIN inflight :
        \/ \E result \in {"true", "false", "throw"} : SaveSharedDone(i, result)
        \/ \E newId \in StoreIds : SaveCreateOk(i, newId)
        \/ SaveUpdateOk(i)
        \/ SaveOwnedError(i)

SpecEditorFair == InitEditor /\ [][EditorNext]_vars /\ WF_vars(SaveCompletes)

(***************************************************************************)
(* The claims                                                              *)
(***************************************************************************)

\* C1: in every reachable state of the canvas the zoom scale is a number
\* with 0.5 <= scale <= 2.0.
C1_ScaleWithinLimits ==
    scale.kind = "fin" /\ Leq(MinScale, scale) /\ Leq(scale, MaxScale)

\* C2: when a save fails (its remote operation throws or answers with an
\* error) and nothing else changed the document while it was awaiting,
\* inputs and outputs are what they were before handleSave.
C2_FailedSaveKeepsCollections ==
    [][\A i \in DOMAIN inflight :
          (ev'.type = "saveDone" /\ ev'.result = "throw" /\ ~inflight[i].dirty)
          => (inputs' = inflight[i].preInputs /\ outputs' = inflight[i].preOutputs)]_vars

\* C3: at most one save awaits its remote operation; while one does, saving
\* is true, the Save button is disabled and handleSave cannot start.
C3_SingleFlight ==
    /\ Len(inflight) <= 1
    /\ inflight # <<>> => (saving /\ ~ENABLED handleSave)

C3_Witness ==
    /\ Len(inflight) = 1 /\ saving /\ nSaves = 2
    /\ inflight[1].dirty

\* C4: in owned mode with id "new" a triggered save invokes the insert and
\* never the update; after the insert succeeds the id is the one the store
\* assigned, later saves update that id, and no second document is created.
C4_NewSheetIsCreatedOnce ==
    /\ (ev.type = "handleSave" /\ ~(isSharedEdit /\ shareCode # NoParam) /\ id = NewId)
          => ev.path = "create"
    /\ \A o \in ops : o.op = "update" => o.key # NewId
    /\ (ev.type = "saveDone" /\ ev.path = "create" /\ ev.result = "ok")
          => (id \in created /\ id # NewId)
    /\ (created # {} /\ page = "editor") => id \in created
    /\ Cardinality(created) <= 1

\* C5: every triggered save invokes exactly one remote operation, the one
\* of its mode: the sharing update in shared edit mode, the update of the
\* id in owned mode with a concrete id, the insert in owned mode with "new".
C5_SaveInvokesItsOperation ==
    ev.type = "handleSave" =>
        /\ ev.path = (IF isSharedEdit /\ shareCode # NoParam THEN "shared"
                      ELSE IF id = NewId THEN "create" ELSE "update")
        /\ Len(inflight) = 1
        /\ inflight[1].path = ev.path
        /\ [op |-> ev.path, key |-> inflight[1].key] \in ops

\* C6: once the share code has resolved to a link that is not an edit link,
\* the browser is at the read-only shared view, nothing was loaded into the
\* editor, and no mutation operation has been invoked.
C6_ViewLinkNeverEdits ==
    linkType \notin {"none", "edit", "error"} =>
        /\ page = "sharedView"
        /\ loads = {}
        /\ patchSheet = NoSheet /\ inputs = <<>> /\ outputs = <<>>
        /\ ops = {} /\ inflight = <<>>

C6_Witness == linkType = "view" /\ page = "sharedView" /\ shareCode = "sc1"

\* C7 as claimed: after a save that succeeded, on each of the three paths,
\* last_edited is the time of the completion, the success indicator is
\* shown and its dismissal after 3 seconds is pending.
C7_EverySuccessShown ==
    (ev.type = "saveDone" /\ ev.result \in {"ok", "true"}) =>
        /\ saveSuccess
        /\ Has(patchSheet, "last_edited") /\ patchSheet.last_edited = 0
        /\ SuccessTimer \in timers

\* C7 as amended: after a shared update or an owned update that succeeded,
\* last_edited is the time of the completion, the success indicator is
\* shown and its dismissal after 3 seconds is pending; the indicator is
\* never shown without a pending dismissal of at most 3 seconds; and an
\* insert that succeeded shows no indicator.
C7_UpdateSuccessShown ==
    /\ (ev.type = "saveDone" /\ ev.result \in {"ok", "true"}
            /\ ev.path \in {"shared", "update"}) =>
          /\ saveSuccess
          /\ Has(patchSheet, "last_edited") /\ patchSheet.last_edited = 0
          /\ [kind |-> "success", left |-> 3] \in timers
    /\ saveSuccess =>
          \E t \in timers : t.kind = "success" /\ t.left <= 3
    /\ (ev.type = "saveDone" /\ ev.result = "ok" /\ ev.path = "create") => ~saveSuccess

C7_Witness ==
    /\ ev.type = "saveDone" /\ ev.result = "ok" /\ ev.path = "update"
    /\ saveSuccess /\ patchSheet.last_edited = 0 /\ patchSheet.name = "Main Stage"

\* C8: every save that failed (an error, an exception, or false from the
\* sharing update) ends with the error indicator shown.
C8_FailedSaveShowsError ==
    (ev.type = "saveDone" /\ ev.result \in {"throw", "false"}) => saveError # NoError

\* C9: the lists a save serializes are the lists in memory when it was
\* triggered, channel by channel in the same order, where an input with a
\* connection and no connectionDetails got the empty record, and every
\* other input is as it was; the same for outputs with sourceType and
\* sourceDetails.
SerializedAs(before, after, kind, details) ==
    /\ Len(after) = Len(before)
    /\ \A k \in 1 .. Len(before) :
          IF before[k][kind] # "" /\ details \notin DOMAIN before[k]
          THEN /\ DOMAIN after[k] = DOMAIN before[k] \cup {details}
               /\ after[k][details] = {}
               /\ \A f \in DOMAIN before[k] : after[k][f] = before[k][f]
          ELSE after[k] = before[k]

C9_SerializedNormalized ==
    \A i \in DOMAIN inflight :
        /\ SerializedAs(inflight[i].preInputs, inflight[i].updatedInputs,
                        "connection", "connectionDetails")
        /\ SerializedAs(inflight[i].preOutputs, inflight[i].updatedOutputs,
                        "sourceType", "sourceDetails")

C9_Witness ==
    /\ Len(inflight) = 1
    /\ inflight[1].preInputs = <<[id |-> "i2", connection |-> "xlr"],
                                 [id |-> "i3", connection |-> "snake",
                                  connectionDetails |-> SomeDetails]>>
    /\ inflight[1].updatedInputs[1].connectionDetails = {}
    /\ inflight[1].preOutputs = <<[id |-> "o1", sourceType |-> "", destinationGear |-> ""],
                                  [id |-> "o2", sourceType |-> "aux",
                                   destinationGear |-> "amp"]>>

\* C10: right after a load in owned or shared edit mode, outputs holds the
\* fetched outputs in the same order, each with destinationGear "" where it
\* was absent or empty and unchanged otherwise, and every other field as
\* fetched; inputs holds the fetched inputs; a list that is absent or not
\* an array loads as the empty list.
C10_LoadedNormalized ==
    (ev.type = "load" /\ page = "editor") =>
        /\ IF ev.data.inputs.kind = "array"
           THEN inputs = ev.data.inputs.items
           ELSE inputs = <<>>
        /\ IF ev.data.outputs.kind = "array"
           THEN LET stored == ev.data.outputs.items
                IN /\ Len(outputs) = Len(stored)
                   /\ \A k \in 1 .. Len(stored) :
                         /\ DOMAIN outputs[k] = DOMAIN stored[k] \cup {"destinationGear"}
                         /\ \A f \in DOMAIN stored[k] \ {"destinationGear"} :
                               outputs[k][f] = stored[k][f]
                         /\ outputs[k].destinationGear =
                               IF "destinationGear" \in DOMAIN stored[k]
                               THEN stored[k].destinationGear ELSE ""
           ELSE outputs = <<>>

C10_Witness ==
    /\ ev.type = "load" /\ page = "editor" /\ ev.from = "shared"
    /\ ev.data.outputs.kind = "array"
    /\ ev.data.outputs.items = <<[id |-> "o1", sourceType |-> ""],
                                 [id |-> "o2", sourceType |-> "aux",
                                  destinationGear |-> "amp"]>>
    /\ outputs[1].destinationGear = "" /\ outputs[2].destinationGear = "amp"
    /\ ev.data.inputs.kind = "other" /\ inputs = <<>>

\* C11: a step that changes the stageSize prop leaves the scale at exactly
\* 1, whatever the scale was and whether or not a pinch is in progress.
C11_SizeChangeResetsScale ==
    [][stageSize' # stageSize => (scale' = One /\ cev'.type = "size")]_vars

C11_Witness ==
    /\ cev.type = "size" /\ scale = One
    /\ startDistance # Null /\ hScale # One /\ hScale.kind = "fin"

\* C12: the rendered dimensions are the documented pair of the preset, and
\* 800 x 500 for every other stageSize, in every state of the canvas.
DocumentedDimensions ==
    ("x-small-narrow" :> <<300, 300>>) @@ ("x-small-wide" :> <<500, 300>>) @@
    ("small-narrow" :> <<400, 400>>) @@ ("small-wide" :> <<600, 400>>) @@
    ("medium-narrow" :> <<500, 500>>) @@ ("medium-wide" :> <<800, 500>>) @@
    ("large-narrow" :> <<600, 600>>) @@ ("large-wide" :> <<1000, 600>>) @@
    ("x-large-narrow" :> <<700, 700>>) @@ ("x-large-wide" :> <<1200, 700>>)

C12_DimensionsOfPreset ==
    /\ Cardinality(DOMAIN DocumentedDimensions) = 10
    /\ <<dimensions.width, dimensions.height>> =
          IF stageSize \in DOMAIN DocumentedDimensions
          THEN DocumentedDimensions[stageSize] ELSE <<800, 500>>

C12_Witness ==
    /\ cev.type = "size" /\ stageSize = "x-large-wide" /\ dimensions.width = 1200
    /\ isViewMode /\ selectedElementId = "e2"

\* C13: the active tab is info at first and always one of info, inputs,
\* outputs; a switch of tab in the mounted editor leaves the document
\* metadata, the inputs and the outputs as they were.
C13_TabSwitchKeepsDocument ==
    /\ activeTab = "info"
    /\ [](activeTab \in {"info", "inputs", "outputs"})
    /\ [][(page = "editor" /\ page' = "editor" /\ activeTab' # activeTab)
            => (patchSheet' = patchSheet /\ inputs' = inputs /\ outputs' = outputs)]_vars

C13_Witness ==
    /\ page = "editor" /\ activeTab = "outputs"
    /\ Len(inputs) = 2 /\ Len(outputs) = 2 /\ patchSheet.name = "Main Stage"

\* C14: once mounted, view-only mode is on exactly when the width is below
\* 768; only the mount and a resize change it; every element is rendered
\* disabled exactly in view-only mode and selected exactly when its id is
\* the selected id of the caller.
C14_ViewModeDerived ==
    /\ [](cMounted =>
            /\ isViewMode = (innerWidth < 768)
            /\ \A e \in Elements :
                  /\ ElementProps(e).disabled = (innerWidth < 768)
                  /\ ElementProps(e).selected = (e = selectedElementId))
    /\ [][isViewMode' # isViewMode => cev'.type \in {"mount", "resize"}]_vars

C14_Witness ==
    /\ cev.type = "resize" /\ innerWidth = 767 /\ isViewMode
    /\ selectedElementId = "e1" /\ ElementProps("e1").selected /\ ElementProps("e1").disabled

\* C15: the canvas click handler calls the select callback with null when
\* view-only mode is off and the target is the canvas itself, and in no
\* other case: not in view-only mode, not for a click on an element.
C15_ClickClearsSelection ==
    cev.type = "click" =>
        /\ isViewMode => ~cev.called
        /\ cev.target \in Elements => ~cev.called
        /\ (~isViewMode /\ cev.target = "canvas") => cev.called

C15_Witness ==
    /\ cev.type = "click" /\ cev.target = "canvas" /\ ~isViewMode /\ cev.called
    /\ selectedElementId = "e1"

\* C16: a shown indicator is cleared only by the start of a save or by its
\* own timer: when it is cleared otherwise, no younger timer of its kind is
\* still pending.
C16_OnlyOwnTimerDismisses ==
    [][(page' = "editor" /\ ev'.type # "handleSave") =>
          /\ (saveSuccess /\ ~saveSuccess') => ~\E t \in timers' : t.kind = "success"
          /\ (saveError # NoError /\ saveError' = NoError)
                => ~\E t \in timers' : t.kind = "error"]_vars

\* C17: once mounted, on a share code route only the share link resolution
\* is awaited and the editor is never at the dashboard; on the route of an
\* id only the fetch by id is awaited; on the route of 'new' no fetch is.
C17_OneLoadByRoute ==
    eMounted =>
        /\ shareCode # NoParam =>
              /\ \A f \in fetches : f.kind = "shared"
              /\ page # "dashboard"
        /\ (shareCode = NoParam /\ id # NewId) => \A f \in fetches : f.kind = "owned"
        /\ id = NewId => fetches = {}

\* C18: a step that changes the viewport class or the stageSize leaves the
\* baseline distance cleared and the scale at 1, and the scale is 1 whenever
\* the mounted canvas is on a non-narrow viewport.
C18_GestureStateReset ==
    /\ [][(isMobile' # isMobile \/ stageSize' # stageSize)
            => (startDistance' = Null /\ scale' = One)]_vars
    /\ []((cMounted /\ ~isMobile) => scale = One)

\* C19: on a narrow viewport a two-finger move with baseline b and distance
\* d sets scale to scale * d / b clamped to [0.5, 2] and the baseline to d;
\* a two-finger start sets the baseline and keeps the scale; an end clears
\* the baseline and keeps the scale; any other move changes neither.
ClampedProduct(s, d, b) ==
    IF 2 * s.num * d < s.den * b THEN Fin(1, 2)
    ELSE IF s.num * d > 2 * s.den * b THEN Fin(2, 1)
    ELSE Fin(s.num * d, s.den * b)

C19_PinchStep ==
    [][isMobile =>
          /\ (cev'.type = "touchmove" /\ cev'.two /\ startDistance # Null) =>
                /\ startDistance' = cev'.distance
                /\ scale'.kind = "fin" /\ Leq(MinScale, scale') /\ Leq(scale', MaxScale)
                /\ (scale.kind = "fin" /\ startDistance > 0)
                      => scale' = ClampedProduct(scale, cev'.distance, startDistance)
          /\ (cev'.type = "touchmove" /\ ~(cev'.two /\ startDistance # Null)) =>
                (scale' = scale /\ startDistance' = startDistance)
          /\ (cev'.type = "touchstart" /\ cev'.two) =>
                (startDistance' = cev'.distance /\ scale' = scale)
          /\ cev'.type = "touchend" => (startDistance' = Null /\ scale' = scale)]_vars

\* C20: when a save completes successfully after the name, the info, the
\* inputs or the outputs were edited while it was awaited, the in-memory
\* document is the edited one.
C20_EditsSurviveSave ==
    [][\A i \in DOMAIN inflight :
          (ev'.type = "saveDone" /\ ev'.result \in {"ok", "true"} /\ inflight[i].dirty)
          => /\ inputs' = inputs
             /\ outputs' = outputs
             /\ patchSheet'.name = patchSheet.name
             /\ patchSheet'.info = patchSheet.info]_vars

\* C21: once loading is false, the completion of a document fetch leaves
\* the in-memory document (metadata, inputs, outputs) as it was; so does the
\* fetch issued when a first save changed the id from 'new'.
C21_FetchNeverOverwrites ==
    [][(~loading /\ page = "editor" /\ page' = "editor" /\ ev'.type = "load")
          => (patchSheet' = patchSheet /\ inputs' = inputs /\ outputs' = outputs)]_vars

\* C22: saving is true only while a save awaits its remote call, and
\* whenever saving is true it becomes false again; a triggered save leads
\* to saving false on every path.
C22_SavingEndsFalse ==
    /\ [](saving <=> inflight # <<>>)
    /\ (saving ~> ~saving)
    /\ (ev.type = "handleSave" ~> (~saving /\ inflight = <<>>))

C22_Witness ==
    /\ ev.type = "saveDone" /\ ev.result = "throw" /\ ev.path = "create"
    /\ ~saving /\ inflight = <<>> /\ nSaves = 1
====
